---- MODULE Spec2Model ----
(***************************************************************************)
(* Model of dbbackup_flow/flows/pg_s3_backup.py: the Prefect flow          *)
(* run_pg_backup and the pure builders it calls.                           *)
(*                                                                         *)
(* Python values are modelled as follows: str as TLA+ strings, bool as     *)
(* BOOLEAN, int as Nat, dict as records (a key is present iff it is in the *)
(* record's DOMAIN), list as sequences.  Python's None is the reserved     *)
(* string None, which no input domain below uses as an ordinary string.    *)
(***************************************************************************)
EXTENDS Naturals, Sequences, FiniteSets, TLC

(***************************************************************************)
(* State.  The environment: the Prefect Variable store and the Kubernetes  *)
(* Secrets of the cluster.  Per flow run (an element of Runs): the flow's  *)
(* arguments, prefect.runtime.flow_run.id, the position in run_pg_backup,  *)
(* and the flow's local variables.                                         *)
(***************************************************************************)
VARIABLES
    variables,       \* Variable store: [VarNames -> value or Absent]
    k8sSecrets,      \* [SecretNames -> contents of that Kubernetes Secret]
    params,          \* [Runs -> the arguments of run_pg_backup]
    flow_run_id,     \* [Runs -> flow_run.id: a string, "" or None]
    pc,              \* [Runs -> position in run_pg_backup]
    config,          \* [Runs -> the seven resolved values (lines 308-314)]
    command_string,  \* [Runs -> command_string (line 317)]
    env_vars,        \* [Runs -> env_vars (line 333)]
    job_name,        \* [Runs -> job_name (line 340)]
    job_manifest,    \* [Runs -> job_manifest (line 343)]
    job,             \* [Runs -> the KubernetesJob block (line 363)]
    submitted,       \* [Runs -> sequence of manifests the run sent to the cluster]
    result,          \* [Runs -> result (line 372)]
    logs,            \* [Runs -> logs (line 373)]
    logger,          \* [Runs -> sequence of logger.info messages]
    response,        \* [Runs -> the returned dict]
    calls,           \* [Runs -> sequence of the steps the run has started]
    error,           \* [Runs -> the call that raised, or None]
    secretAtBuild    \* [Runs -> k8sSecrets when the run built its manifest]

vars ==
    << variables, k8sSecrets, params, flow_run_id, pc, config, command_string,
       env_vars, job_name, job_manifest, job, submitted, result, logs, logger,
       response, calls, error, secretAtBuild >>

(***************************************************************************)
(* Module constants of the program (lines 12-25).                          *)
(***************************************************************************)
JOB_NAME_PREFIX == "pg-s3-backup"
APP_LABEL == "pg-s3-backup"
FLOW_LABEL == "pg-s3-backup"
CONTAINER_NAME == "pg-s3-backup"

VAR_BUCKET == "pg_backup_bucket"
VAR_PREFIX == "pg_backup_prefix"
VAR_HOST == "pg_backup_host"
VAR_DBNAME == "pg_backup_dbname"
VAR_USER == "pg_backup_user"
VAR_AWS_REGION == "pg_backup_aws_region"
VAR_AWS_ENDPOINT_URL == "pg_backup_aws_endpoint_url"

VarNames ==
    {VAR_BUCKET, VAR_PREFIX, VAR_HOST, VAR_DBNAME, VAR_USER, VAR_AWS_REGION,
     VAR_AWS_ENDPOINT_URL}

\* Literals of run_pg_backup.
JobSuffixLen == 8
TimeoutSeconds == 600
DefaultPort == 5432
DefaultBackoffLimit == 4
DefaultTtl == 300

MANUAL_SUFFIX == "manual"
MSG_NO_CREDENTIALS == "No credentials provided, using in-cluster Kubernetes config"
MSG_COMPLETED == "Backup completed successfully"

(***************************************************************************)
(* Python values.                                                          *)
(***************************************************************************)
None == "<None>"

\* The Variable store's marker for "no Variable of that name".
Absent == "<absent>"

\* bool(v) for v a str or None.
Truthy(v) == v # None /\ v # ""

\* str(n) for an int n >= 0.
Digit(d) == SubSeq("0123456789", d + 1, d + 1)

RECURSIVE Str(_)
Str(n) == IF n < 10 THEN Digit(n) ELSE Str(n \div 10) \o Digit(n % 10)

\* f'"{s}"'
Quoted(s) == "\"" \o s \o "\""

\* sep.join(parts)
RECURSIVE Join(_, _)
Join(parts, sep) ==
    IF Len(parts) = 0 THEN ""
    ELSE IF Len(parts) = 1 THEN parts[1]
    ELSE parts[1] \o sep \o Join(Tail(parts), sep)

\* s[:n]
SliceTo(s, n) == SubSeq(s, 1, IF Len(s) < n THEN Len(s) ELSE n)

(***************************************************************************)
(* load_config_value: Variable.get(name, default) on the Variable store.   *)
(***************************************************************************)
VariableGet(store, var_name, default) ==
    IF store[var_name] # Absent THEN store[var_name] ELSE default

\* load_config_value that never consults the store.
load_config_value_default_only(store, var_name, default) == default

load_config_value(store, var_name, default) == VariableGet(store, var_name, default)

(***************************************************************************)
(* build_command_string: the list cmd_parts, then " ".join(cmd_parts).     *)
(***************************************************************************)
MandatoryParts(host, port, dbname, user, bucket, aws_region) ==
    << "/app/pg_s3_backup",
       "--host", Quoted(host),
       "--port", Str(port),
       "--dbname", Quoted(dbname),
       "--user", Quoted(user),
       "--password", "\"$PGPASSWORD\"",
       "--bucket", Quoted(bucket),
       "--aws-access-key-id", "\"$AWS_ACCESS_KEY_ID\"",
       "--aws-secret-key", "\"$AWS_SECRET_ACCESS_KEY\"",
       "--aws-region", Quoted(aws_region) >>

\* OptionalParts testing "is not None" where the code tests truthiness.
OptionalPartsNotNone(backup_all, prefix, aws_endpoint_url, compress, keep_local) ==
    (IF backup_all THEN <<"--all">> ELSE <<>>)
    \o (IF prefix # None THEN <<"--prefix", Quoted(prefix)>> ELSE <<>>)
    \o (IF aws_endpoint_url # None
        THEN <<"--aws-endpoint-url", Quoted(aws_endpoint_url)>> ELSE <<>>)
    \o (IF compress THEN <<"--compress">> ELSE <<>>)
    \o (IF keep_local THEN <<"--keep-local">> ELSE <<>>)

OptionalParts(backup_all, prefix, aws_endpoint_url, compress, keep_local) ==
    (IF backup_all THEN <<"--all">> ELSE <<>>)
    \o (IF Truthy(prefix) THEN <<"--prefix", Quoted(prefix)>> ELSE <<>>)
    \o (IF Truthy(aws_endpoint_url)
        THEN <<"--aws-endpoint-url", Quoted(aws_endpoint_url)>> ELSE <<>>)
    \o (IF compress THEN <<"--compress">> ELSE <<>>)
    \o (IF keep_local THEN <<"--keep-local">> ELSE <<>>)

build_cmd_parts(host, port, dbname, user, bucket, aws_profile, aws_region, backup_all, prefix, aws_endpoint_url, compress, keep_local) ==
    MandatoryParts(host, port, dbname, user, bucket, aws_region)
    \o OptionalParts(backup_all, prefix, aws_endpoint_url, compress, keep_local)

build_command_string(host, port, dbname, user, bucket, aws_profile, aws_region, backup_all, prefix, aws_endpoint_url, compress, keep_local) ==
    Join(build_cmd_parts(host, port, dbname, user, bucket, aws_profile,
                         aws_region, backup_all, prefix, aws_endpoint_url,
                         compress, keep_local), " ")

(***************************************************************************)
(* build_env_vars: three secretKeyRef entries.                             *)
(***************************************************************************)
SecretRef(env_name, k8s_secret_name, key) ==
    [name |-> env_name,
     valueFrom |-> [secretKeyRef |-> [name |-> k8s_secret_name, key |-> key]]]

\* build_env_vars reading the Secret and passing its values literally.
build_env_vars_literal(k8s_secret_name) ==
    LET d == IF k8s_secret_name \in DOMAIN k8sSecrets
             THEN k8sSecrets[k8s_secret_name]
             ELSE [k \in {"pg-password", "aws-access-key", "aws-secret-key"} |-> ""]
    IN  << [name |-> "PGPASSWORD", value |-> d["pg-password"]],
           [name |-> "AWS_ACCESS_KEY_ID", value |-> d["aws-access-key"]],
           [name |-> "AWS_SECRET_ACCESS_KEY", value |-> d["aws-secret-key"]] >>

build_env_vars(k8s_secret_name) ==
    << SecretRef("PGPASSWORD", k8s_secret_name, "pg-password"),
       SecretRef("AWS_ACCESS_KEY_ID", k8s_secret_name, "aws-access-key"),
       SecretRef("AWS_SECRET_ACCESS_KEY", k8s_secret_name, "aws-secret-key") >>

(***************************************************************************)
(* build_job_manifest.                                                     *)
(***************************************************************************)
Container(image, image_pull_policy, command, env) ==
    [name |-> CONTAINER_NAME,
     image |-> image,
     imagePullPolicy |-> image_pull_policy,
     command |-> <<"/bin/sh", "-c">>,
     args |-> <<command>>,
     env |-> env]

\* PodSpec testing "is not None" where the code tests truthiness.
PodSpecNotNone(image, image_pull_policy, command, env, image_pull_secret) ==
    IF image_pull_secret # None
    THEN [restartPolicy |-> "Never",
          containers |-> <<Container(image, image_pull_policy, command, env)>>,
          imagePullSecrets |-> <<[name |-> image_pull_secret]>>]
    ELSE [restartPolicy |-> "Never",
          containers |-> <<Container(image, image_pull_policy, command, env)>>]

PodSpec(image, image_pull_policy, command, env, image_pull_secret) ==
    IF Truthy(image_pull_secret)
    THEN [restartPolicy |-> "Never",
          containers |-> <<Container(image, image_pull_policy, command, env)>>,
          imagePullSecrets |-> <<[name |-> image_pull_secret]>>]
    ELSE [restartPolicy |-> "Never",
          containers |-> <<Container(image, image_pull_policy, command, env)>>]

build_job_manifest(name, image, image_pull_policy, command, env, backoff_limit, ttl_seconds_after_finished, namespace, image_pull_secret) ==
    [apiVersion |-> "batch/v1",
     kind |-> "Job",
     metadata |-> [name |-> name,
                   namespace |-> namespace,
                   labels |-> ("app" :> APP_LABEL) @@ ("prefect-flow" :> FLOW_LABEL)],
     spec |-> [backoffLimit |-> backoff_limit,
               ttlSecondsAfterFinished |-> ttl_seconds_after_finished,
               template |-> [spec |-> PodSpec(image, image_pull_policy,
                                               command, env,
                                               image_pull_secret)]]]

(***************************************************************************)
(* Input domains.                                                          *)
(***************************************************************************)
Runs == {"run1", "run2"}

\* A run that is not part of the behaviour stays at this position.
NoRun == "norun"

\* The Secret the docstring has the operator create (line 272), and the
\* values of the k8s_secret_name argument.
SecretNames == {"pg-backup-secrets"}
SecretParamNames == {"pg-backup-secrets", "pg-backup-secrets-dr"}

SecretData(pw, ak, sk) ==
    ("pg-password" :> pw) @@ ("aws-access-key" :> ak) @@ ("aws-secret-key" :> sk)

SecretV1 == SecretData("s3cr3t", "AKIAOLD", "wJalrOLD")
SecretV2 == SecretData("hunter2", "AKIANEW", "wJalrNEW")
SecretContents == {SecretV1, SecretV2}

\* What Variable.get can find under each name.
StoredValue ==
    (VAR_BUCKET :> "var-bucket") @@ (VAR_PREFIX :> "var/prefix/") @@ (VAR_HOST :> "db.example.com")
    @@ (VAR_DBNAME :> "mydb") @@ (VAR_USER :> "backup_user") @@ (VAR_AWS_REGION :> "eu-west-1")
    @@ (VAR_AWS_ENDPOINT_URL :> "https://s3.custom.com")

StoreWith(present) == [n \in VarNames |-> IF n \in present THEN StoredValue[n] ELSE Absent]

AllStores == {StoreWith(present) : present \in SUBSET VarNames}

\* The defaults of run_pg_backup's signature (lines 230-256).
DefaultParams ==
    [namespace |-> "prefect",
     kubernetes_credentials |-> None,
     k8s_secret_name |-> "pg-backup-secrets",
     image |-> "regv2.gsingh.io/personal/pg-s3-backup:latest",
     image_pull_policy |-> "Always",
     image_pull_secret |-> None,
     host |-> "localhost",
     port |-> DefaultPort,
     dbname |-> "postgres",
     user |-> "postgres",
     backup_all |-> FALSE,
     bucket |-> "my-backups",
     prefix |-> "",
     aws_profile |-> "default",
     aws_region |-> "us-east-1",
     aws_endpoint_url |-> None,
     compress |-> FALSE,
     keep_local |-> FALSE,
     include_logs |-> TRUE,
     backoff_limit |-> DefaultBackoffLimit,
     ttl_seconds_after_finished |-> DefaultTtl]

Namespaces == {"prefect", "backups"}
Credentials == {None, "k8s-creds-block"}
PullSecrets == {None, "", "regcred"}
Ports == {DefaultPort, 6543}
Prefixes == {"", "daily/"}
Profiles == {"default", "prod"}
EndpointUrls == {None, "", "https://minio.local"}

\* prefect.runtime.flow_run.id: a UUID string inside a flow run, None (or
\* empty) outside one.
FlowRunIds ==
    {None, "", "3f2a9c1e-77aa-4c1b-9d2e-000000000001", "3f2a9c1e-0b5d-4e8f-8a11-000000000002", "c0ffee00-1234-4abc-8def-000000000003"}

\* What KubernetesJobRun.fetch_result can return.
LogTexts == {"", "pg_dump: done; uploaded"}

\* The value of a local variable that has not been assigned yet.
Unset == [unset |-> TRUE]

(***************************************************************************)
(* Initial states.  A behaviour has the flow runs whose position is        *)
(* "start"; the arguments, the flow run id and the Variable store are      *)
(* inputs.  Distinct flow runs have distinct ids (Prefect assigns UUIDs);  *)
(* outside a flow run the id is None.                                      *)
(***************************************************************************)
InitLocals ==
    /\ k8sSecrets = [n \in SecretNames |-> SecretV1]
    /\ config = [r \in Runs |-> Unset]
    /\ command_string = [r \in Runs |-> None]
    /\ env_vars = [r \in Runs |-> <<>>]
    /\ job_name = [r \in Runs |-> None]
    /\ job_manifest = [r \in Runs |-> Unset]
    /\ job = [r \in Runs |-> Unset]
    /\ submitted = [r \in Runs |-> <<>>]
    /\ result = [r \in Runs |-> None]
    /\ logs = [r \in Runs |-> None]
    /\ logger = [r \in Runs |-> <<>>]
    /\ response = [r \in Runs |-> Unset]
    /\ calls = [r \in Runs |-> <<>>]
    /\ error = [r \in Runs |-> None]
    /\ secretAtBuild = [r \in Runs |-> Unset]

OneRun(p, id) ==
    /\ params = [r \in Runs |-> IF r = "run1" THEN p ELSE DefaultParams]
    /\ flow_run_id = [r \in Runs |-> IF r = "run1" THEN id ELSE None]
    /\ pc = [r \in Runs |-> IF r = "run1" THEN "start" ELSE NoRun]

\* One flow run; every Variable store; the arguments that decide the flow's
\* own branches.
FlowParams ==
    {[DefaultParams EXCEPT !.include_logs = il, !.prefix = px, !.kubernetes_credentials = kc] :
        il \in BOOLEAN, px \in Prefixes, kc \in Credentials}

Init ==
    /\ InitLocals
    /\ variables \in AllStores
    /\ \E p \in FlowParams : OneRun(p, "c0ffee00-1234-4abc-8def-000000000003")

\* One flow run; the arguments of the three builders.
BuildParams ==
    {[DefaultParams EXCEPT !.port = po, !.backup_all = ba, !.prefix = px, !.aws_endpoint_url = eu,
                           !.compress = co, !.keep_local = kl, !.namespace = ns,
                           !.image_pull_secret = ps, !.k8s_secret_name = sn] :
        po \in Ports, ba \in BOOLEAN, px \in Prefixes, eu \in EndpointUrls, co \in BOOLEAN,
        kl \in BOOLEAN, ns \in Namespaces, ps \in PullSecrets, sn \in SecretParamNames}

InitBuild ==
    /\ InitLocals
    /\ variables = StoreWith({VAR_HOST})
    /\ \E p \in BuildParams : OneRun(p, "c0ffee00-1234-4abc-8def-000000000003")

\* Two flow runs against the same Variable store.
PairParams == {[DefaultParams EXCEPT !.aws_profile = ap] : ap \in Profiles}

InitPair ==
    /\ InitLocals
    /\ variables = StoreWith({VAR_BUCKET, VAR_HOST})
    /\ params \in [Runs -> PairParams]
    /\ flow_run_id \in [Runs -> FlowRunIds]
    /\ \A r1, r2 \in Runs :
          (r1 # r2 /\ Truthy(flow_run_id[r1])) => flow_run_id[r1] # flow_run_id[r2]
    /\ pc = [r \in Runs |-> "start"]

\* Two flow runs that name a Secret each, while the Secret's contents change.
SecretParams == {[DefaultParams EXCEPT !.k8s_secret_name = sn] : sn \in SecretParamNames}

SecretRunIds == {None, "3f2a9c1e-77aa-4c1b-9d2e-000000000001"}

InitSecret ==
    /\ InitLocals
    /\ variables = StoreWith({VAR_BUCKET, VAR_HOST})
    /\ params \in [Runs -> SecretParams]
    /\ flow_run_id \in [Runs -> SecretRunIds]
    /\ \A r1, r2 \in Runs :
          (r1 # r2 /\ Truthy(flow_run_id[r1])) => flow_run_id[r1] # flow_run_id[r2]
    /\ pc = [r \in Runs |-> "start"]

(***************************************************************************)
(* run_pg_backup, one action per step of its body.                         *)
(***************************************************************************)
\* Lines 308-314: the seven load_config_value calls.
ResolveConfig(r) ==
    /\ pc[r] = "start"
    /\ config' = [config EXCEPT ![r] =
          [bucket |-> load_config_value(variables, VAR_BUCKET, params[r].bucket),
           prefix |-> load_config_value(variables, VAR_PREFIX, params[r].prefix),
           host |-> load_config_value(variables, VAR_HOST, params[r].host),
           dbname |-> load_config_value(variables, VAR_DBNAME, params[r].dbname),
           user |-> load_config_value(variables, VAR_USER, params[r].user),
           aws_region |-> load_config_value(variables, VAR_AWS_REGION, params[r].aws_region),
           aws_endpoint_url |->
               load_config_value(variables, VAR_AWS_ENDPOINT_URL, params[r].aws_endpoint_url)]]
    /\ calls' = [calls EXCEPT ![r] = Append(@, "resolve")]
    /\ pc' = [pc EXCEPT ![r] = "resolved"]
    /\ UNCHANGED << variables, k8sSecrets, params, flow_run_id, command_string, env_vars,
                    job_name, job_manifest, job, submitted, result, logs, logger, response,
                    error, secretAtBuild >>

\* Line 317.
CommandOf(p, c) ==
    build_command_string(c.host, p.port, c.dbname, c.user, c.bucket, p.aws_profile,
                         c.aws_region, p.backup_all, c.prefix, c.aws_endpoint_url,
                         p.compress, p.keep_local)

\* Lines 338-340.
JobSuffix(id) == IF Truthy(id) THEN SliceTo(id, JobSuffixLen) ELSE MANUAL_SUFFIX

JobName(id) == JOB_NAME_PREFIX \o "-" \o JobSuffix(id)

\* Line 343.
ManifestOf(p, name, command, env) ==
    build_job_manifest(name, p.image, p.image_pull_policy, command, env, p.backoff_limit,
                       p.ttl_seconds_after_finished, p.namespace, p.image_pull_secret)

\* Line 355.
StartingMessage(c) == "Starting PostgreSQL backup to S3: " \o c.bucket \o "/" \o c.prefix

\* Lines 358-360: KubernetesCredentials() when none was given.
CredentialsOf(p) ==
    IF p.kubernetes_credentials = None THEN "in-cluster" ELSE p.kubernetes_credentials

\* Lines 363-369.
KubernetesJob(v1_job, namespace, credentials) ==
    [v1_job |-> v1_job,
     namespace |-> namespace,
     credentials |-> credentials,
     delete_after_completion |-> TRUE,
     timeout_seconds |-> TimeoutSeconds]

\* Lines 317-369: build the command string, the env vars, the job name, the
\* manifest and the KubernetesJob block.
BuildJob(r) ==
    /\ pc[r] = "resolved"
    /\ LET p == params[r]
           c == config[r]
           command == CommandOf(p, c)
           env == build_env_vars(p.k8s_secret_name)
           name == JobName(flow_run_id[r])
           manifest == ManifestOf(p, name, command, env)
       IN  /\ command_string' = [command_string EXCEPT ![r] = command]
           /\ env_vars' = [env_vars EXCEPT ![r] = env]
           /\ job_name' = [job_name EXCEPT ![r] = name]
           /\ job_manifest' = [job_manifest EXCEPT ![r] = manifest]
           /\ logger' = [logger EXCEPT ![r] =
                 @ \o <<StartingMessage(c)>>
                   \o (IF p.kubernetes_credentials = None
                       THEN <<MSG_NO_CREDENTIALS>> ELSE <<>>)]
           /\ job' = [job EXCEPT ![r] = KubernetesJob(manifest, p.namespace, CredentialsOf(p))]
    /\ secretAtBuild' = [secretAtBuild EXCEPT ![r] = k8sSecrets]
    /\ calls' = [calls EXCEPT ![r] = Append(@, "build")]
    /\ pc' = [pc EXCEPT ![r] = "built"]
    /\ UNCHANGED << variables, k8sSecrets, params, flow_run_id, config, submitted, result,
                    logs, response, error >>

\* Raise with the exception caught and the flow carrying on to its return.
RaiseSwallowed(r, call) ==
    /\ calls' = [calls EXCEPT ![r] = Append(@, call)]
    /\ error' = [error EXCEPT ![r] = call]
    /\ pc' = [pc EXCEPT ![r] = "fetched"]
    /\ UNCHANGED << variables, k8sSecrets, params, flow_run_id, config, command_string,
                    env_vars, job_name, job_manifest, job, submitted, result, logs, logger,
                    response, secretAtBuild >>

\* A call of the flow raises: the exception leaves run_pg_backup.
Raise(r, call) ==
    /\ calls' = [calls EXCEPT ![r] = Append(@, call)]
    /\ error' = [error EXCEPT ![r] = call]
    /\ pc' = [pc EXCEPT ![r] = "raised"]
    /\ UNCHANGED << variables, k8sSecrets, params, flow_run_id, config, command_string,
                    env_vars, job_name, job_manifest, job, submitted, result, logs, logger,
                    response, secretAtBuild >>

\* Line 371: job.trigger() creates the Job in the cluster.
Trigger(r) ==
    /\ pc[r] = "built"
    /\ submitted' = [submitted EXCEPT ![r] = Append(@, job[r].v1_job)]
    /\ calls' = [calls EXCEPT ![r] = Append(@, "trigger")]
    /\ pc' = [pc EXCEPT ![r] = "triggered"]
    /\ UNCHANGED << variables, k8sSecrets, params, flow_run_id, config, command_string,
                    env_vars, job_name, job_manifest, job, result, logs, logger, response,
                    error, secretAtBuild >>

TriggerRaises(r) ==
    /\ pc[r] = "built"
    /\ Raise(r, "trigger")

\* Line 372: job_run.wait_for_completion() returns.
WaitForCompletion(r) ==
    /\ pc[r] = "triggered"
    /\ \E res \in BOOLEAN : result' = [result EXCEPT ![r] = res]
    /\ calls' = [calls EXCEPT ![r] = Append(@, "wait")]
    /\ pc' = [pc EXCEPT ![r] = "waited"]
    /\ UNCHANGED << variables, k8sSecrets, params, flow_run_id, config, command_string,
                    env_vars, job_name, job_manifest, job, submitted, logs, logger, response,
                    error, secretAtBuild >>

\* Line 372: the wait raises (the job failed, or timeout_seconds elapsed).
WaitRaises(r) ==
    /\ pc[r] = "triggered"
    /\ Raise(r, "wait")

\* FetchLogs with the fetch moved in front of the wait.
FetchLogsBeforeWait(r) ==
    /\ pc[r] = "triggered"
    /\ IF params[r].include_logs
       THEN /\ \E text \in LogTexts : logs' = [logs EXCEPT ![r] = text]
            /\ calls' = [calls EXCEPT ![r] = Append(@, "fetch")]
       ELSE /\ logs' = [logs EXCEPT ![r] = None]
            /\ calls' = calls
    /\ pc' = [pc EXCEPT ![r] = "fetched"]
    /\ UNCHANGED << variables, k8sSecrets, params, flow_run_id, config, command_string,
                    env_vars, job_name, job_manifest, job, submitted, result, logger,
                    response, error, secretAtBuild >>

\* Line 373: logs = job_run.fetch_result() if include_logs else None.
FetchLogs(r) ==
    /\ pc[r] = "waited"
    /\ IF params[r].include_logs
       THEN /\ \E text \in LogTexts : logs' = [logs EXCEPT ![r] = text]
            /\ calls' = [calls EXCEPT ![r] = Append(@, "fetch")]
       ELSE /\ logs' = [logs EXCEPT ![r] = None]
            /\ calls' = calls
    /\ pc' = [pc EXCEPT ![r] = "fetched"]
    /\ UNCHANGED << variables, k8sSecrets, params, flow_run_id, config, command_string,
                    env_vars, job_name, job_manifest, job, submitted, result, logger,
                    response, error, secretAtBuild >>

FetchRaises(r) ==
    /\ pc[r] = "waited"
    /\ params[r].include_logs
    /\ Raise(r, "fetch")

\* Response with the "logs" key set unconditionally.
ResponseAlwaysLogs(success, bucket, prefix, include_logs, text) ==
    [success |-> success, bucket |-> bucket, prefix |-> prefix, logs |-> text]

\* Lines 378-384.
Response(success, bucket, prefix, include_logs, text) ==
    IF include_logs
    THEN [success |-> success, bucket |-> bucket, prefix |-> prefix, logs |-> text]
    ELSE [success |-> success, bucket |-> bucket, prefix |-> prefix]

\* Lines 375-386: log the completion message, build and return the response.
Return(r) ==
    /\ pc[r] = "fetched"
    /\ logger' = [logger EXCEPT ![r] = Append(@, MSG_COMPLETED)]
    /\ response' = [response EXCEPT ![r] =
          Response(result[r], config[r].bucket, config[r].prefix, params[r].include_logs,
                   logs[r])]
    /\ calls' = [calls EXCEPT ![r] = Append(@, "return")]
    /\ pc' = [pc EXCEPT ![r] = "returned"]
    /\ UNCHANGED << variables, k8sSecrets, params, flow_run_id, config, command_string,
                    env_vars, job_name, job_manifest, job, submitted, result, logs, error,
                    secretAtBuild >>

\* The environment replaces the contents of a Kubernetes Secret.
RotateSecret(n) ==
    /\ \E d \in SecretContents \ {k8sSecrets[n]} : k8sSecrets' = [k8sSecrets EXCEPT ![n] = d]
    /\ UNCHANGED << variables, params, flow_run_id, pc, config, command_string, env_vars,
                    job_name, job_manifest, job, submitted, result, logs, logger, response,
                    calls, error, secretAtBuild >>

Next ==
    \/ \E r \in Runs : ResolveConfig(r)
    \/ \E r \in Runs : BuildJob(r)
    \/ \E r \in Runs : Trigger(r)
    \/ \E r \in Runs : TriggerRaises(r)
    \/ \E r \in Runs : WaitForCompletion(r)
    \/ \E r \in Runs : WaitRaises(r)
    \/ \E r \in Runs : FetchLogs(r)
    \/ \E r \in Runs : FetchRaises(r)
    \/ \E r \in Runs : Return(r)
    \/ \E n \in SecretNames : RotateSecret(n)

Spec == Init /\ [][Next]_vars

SpecBuild == InitBuild /\ [][Next]_vars

SpecPair == InitPair /\ [][Next]_vars

SpecSecret == InitSecret /\ [][Next]_vars

(***************************************************************************)
(* Properties.                                                             *)
(***************************************************************************)
InSeq(x, seq) == \E i \in 1..Len(seq) : seq[i] = x

IsPrefix(a, b) == Len(a) <= Len(b) /\ SubSeq(b, 1, Len(a)) = a

Count(x, seq) == Cardinality({i \in 1..Len(seq) : seq[i] = x})

\* The run has assigned command_string, env_vars, job_name, job_manifest and job.
Built(r) == pc[r] \notin {NoRun, "start", "resolved"}

Returned(r) == pc[r] = "returned"

\* wait_for_completion was called and came back with a value.
WaitReturned(r) == InSeq("wait", calls[r]) /\ error[r] # "wait"

StepOrder(r) ==
    <<"resolve", "build", "trigger", "wait">>
    \o (IF params[r].include_logs THEN <<"fetch">> ELSE <<>>)
    \o <<"return">>

\* C1: in every run the steps happen in the order resolve, build, trigger,
\* wait, (fetch,) return, each at most once; the job is submitted once, before
\* the wait; no log fetch and no return happens before wait_for_completion
\* has returned.
C1_StepsInOrder ==
    \A r \in Runs :
        /\ IsPrefix(calls[r], StepOrder(r))
        /\ Len(submitted[r]) <= 1
        /\ InSeq("wait", calls[r]) => Len(submitted[r]) = 1 /\ submitted[r][1] = job_manifest[r]
        /\ InSeq("build", calls[r]) => config[r] # Unset
        /\ InSeq("trigger", calls[r]) => Built(r)
        /\ (InSeq("fetch", calls[r]) \/ logs[r] # None \/ response[r] # Unset) => WaitReturned(r)
        /\ Returned(r) <=> response[r] # Unset

C1_Witness ==
    \E r \in Runs :
        /\ Returned(r)
        /\ calls[r] = <<"resolve", "build", "trigger", "wait", "fetch", "return">>
        /\ Len(submitted[r]) = 1

\* The value the claim expects for the Variable called var_name with the
\* argument arg as its fallback.
Expected(var_name, arg) == IF variables[var_name] # Absent THEN StoredValue[var_name] ELSE arg

ExpectedConfig(r) ==
    [bucket |-> Expected(VAR_BUCKET, params[r].bucket),
     prefix |-> Expected(VAR_PREFIX, params[r].prefix),
     host |-> Expected(VAR_HOST, params[r].host),
     dbname |-> Expected(VAR_DBNAME, params[r].dbname),
     user |-> Expected(VAR_USER, params[r].user),
     aws_region |-> Expected(VAR_AWS_REGION, params[r].aws_region),
     aws_endpoint_url |-> Expected(VAR_AWS_ENDPOINT_URL, params[r].aws_endpoint_url)]

\* C2: each of bucket, prefix, host, dbname, user, aws_region and
\* aws_endpoint_url used in the command string (and bucket and prefix in the
\* response) is the stored Variable when one exists and the run_pg_backup
\* argument otherwise.
C2_ConfigFallsBackToParams ==
    \A r \in Runs :
        /\ Built(r) =>
              /\ config[r] = ExpectedConfig(r)
              /\ command_string[r] = CommandOf(params[r], ExpectedConfig(r))
              /\ job_manifest[r].spec.template.spec.containers[1].args
                    = <<CommandOf(params[r], ExpectedConfig(r))>>
        /\ Returned(r) =>
              /\ response[r].bucket = ExpectedConfig(r).bucket
              /\ response[r].prefix = ExpectedConfig(r).prefix

C2_Witness ==
    \E r \in Runs :
        /\ Returned(r)
        /\ variables[VAR_BUCKET] # Absent
        /\ variables[VAR_PREFIX] = Absent
        /\ variables[VAR_AWS_ENDPOINT_URL] = Absent
        /\ params[r].prefix = "daily/"
        /\ response[r].bucket = "var-bucket"
        /\ response[r].prefix = "daily/"

\* C3: "Backup completed successfully" is logged only in runs where
\* wait_for_completion returned a true result, and the response's "success"
\* field equals that result.
C3_SuccessLoggedOnlyOnTrueResult ==
    \A r \in Runs :
        /\ InSeq(MSG_COMPLETED, logger[r]) => result[r] = TRUE
        /\ Returned(r) => response[r].success = result[r]

\* C4: fetch_result is called iff include_logs; the response has a "logs" key
\* iff include_logs, holding what fetch_result returned; without include_logs
\* the response has only the keys success, bucket and prefix.
C4_LogsIffIncludeLogs ==
    \A r \in Runs :
        /\ InSeq("fetch", calls[r]) => params[r].include_logs
        /\ pc[r] \in {"fetched", "returned"} =>
              /\ InSeq("fetch", calls[r]) <=> params[r].include_logs
              /\ ~params[r].include_logs => logs[r] = None
        /\ Returned(r) =>
              /\ ("logs" \in DOMAIN response[r]) <=> params[r].include_logs
              /\ params[r].include_logs =>
                    /\ response[r].logs = logs[r]
                    /\ logs[r] \in LogTexts
                    /\ DOMAIN response[r] = {"success", "bucket", "prefix", "logs"}
              /\ ~params[r].include_logs => DOMAIN response[r] = {"success", "bucket", "prefix"}

C4_Witness ==
    \E r \in Runs :
        /\ Returned(r)
        /\ params[r].include_logs
        /\ response[r].logs = "pg_dump: done; uploaded"

\* C9: when trigger, wait_for_completion or fetch_result raises, the run
\* returns no response, does not log the completion message, runs no later
\* step (no fetch after a failed wait) and submits nothing a second time.
C9_ErrorsPropagate ==
    \A r \in Runs :
        error[r] # None =>
            /\ pc[r] = "raised"
            /\ response[r] = Unset
            /\ ~InSeq(MSG_COMPLETED, logger[r])
            /\ calls[r][Len(calls[r])] = error[r]
            /\ Count(error[r], calls[r]) = 1
            /\ Count("trigger", calls[r]) = 1
            /\ Len(submitted[r]) <= 1
            /\ error[r] = "trigger" => submitted[r] = <<>>
            /\ error[r] \in {"trigger", "wait"} => ~InSeq("fetch", calls[r]) /\ logs[r] = None
            /\ ~InSeq("return", calls[r])

C9_Witness ==
    \E r \in Runs :
        /\ error[r] = "wait"
        /\ pc[r] = "raised"
        /\ Len(submitted[r]) = 1

\* The text the claim gives for the mandatory part, from the resolved values.
MandatoryText(r) ==
    "/app/pg_s3_backup"
    \o " --host \"" \o config[r].host \o "\""
    \o " --port " \o Str(params[r].port)
    \o " --dbname \"" \o config[r].dbname \o "\""
    \o " --user \"" \o config[r].user \o "\""
    \o " --password \"$PGPASSWORD\""
    \o " --bucket \"" \o config[r].bucket \o "\""
    \o " --aws-access-key-id \"$AWS_ACCESS_KEY_ID\""
    \o " --aws-secret-key \"$AWS_SECRET_ACCESS_KEY\""
    \o " --aws-region \"" \o config[r].aws_region \o "\""

OptionalText(r) ==
    (IF params[r].backup_all THEN " --all" ELSE "")
    \o (IF config[r].prefix \notin {"", None}
        THEN " --prefix \"" \o config[r].prefix \o "\"" ELSE "")
    \o (IF config[r].aws_endpoint_url \notin {"", None}
        THEN " --aws-endpoint-url \"" \o config[r].aws_endpoint_url \o "\"" ELSE "")
    \o (IF params[r].compress THEN " --compress" ELSE "")
    \o (IF params[r].keep_local THEN " --keep-local" ELSE "")

\* C8: the command string is the mandatory part (/app/pg_s3_backup --host
\* --port --dbname --user --password --bucket --aws-access-key-id
\* --aws-secret-key --aws-region, in that order) followed by --all, --prefix,
\* --aws-endpoint-url, --compress, --keep-local, each present iff its input is
\* truthy; an empty prefix or a None/empty endpoint URL yields no flag.
C8_CommandString ==
    \A r \in Runs : Built(r) => command_string[r] = MandatoryText(r) \o OptionalText(r)

C8_Witness ==
    \E r \in Runs :
        /\ Built(r)
        /\ params[r].port = 6543
        /\ params[r].backup_all /\ ~params[r].compress /\ params[r].keep_local
        /\ config[r].prefix = ""
        /\ config[r].aws_endpoint_url = "https://minio.local"
        /\ command_string[r] =
              "/app/pg_s3_backup --host \"db.example.com\" --port 6543 --dbname \"postgres\""
              \o " --user \"postgres\" --password \"$PGPASSWORD\" --bucket \"my-backups\""
              \o " --aws-access-key-id \"$AWS_ACCESS_KEY_ID\""
              \o " --aws-secret-key \"$AWS_SECRET_ACCESS_KEY\" --aws-region \"us-east-1\""
              \o " --all --aws-endpoint-url \"https://minio.local\" --keep-local"

\* C10: every manifest is a batch/v1 Job with one container, restartPolicy
\* Never, command ["/bin/sh", "-c"], the command string as the only argument,
\* labels app and prefect-flow; imagePullSecrets is present (naming
\* image_pull_secret) iff image_pull_secret is a non-empty string; the
\* manifest's namespace is the namespace passed to KubernetesJob.
C10_ManifestShape ==
    \A r \in Runs :
        Built(r) =>
            LET m == job_manifest[r]
                pod == m.spec.template.spec
                ips == params[r].image_pull_secret
            IN  /\ m.apiVersion = "batch/v1"
                /\ m.kind = "Job"
                /\ Len(pod.containers) = 1
                /\ pod.restartPolicy = "Never"
                /\ pod.containers[1].command = <<"/bin/sh", "-c">>
                /\ pod.containers[1].args = <<command_string[r]>>
                /\ DOMAIN m.metadata.labels = {"app", "prefect-flow"}
                /\ m.metadata.labels["app"] = "pg-s3-backup"
                /\ m.metadata.labels["prefect-flow"] = "pg-s3-backup"
                /\ ("imagePullSecrets" \in DOMAIN pod) <=> (ips # None /\ ips # "")
                /\ ("imagePullSecrets" \in DOMAIN pod) => pod.imagePullSecrets = <<[name |-> ips]>>
                /\ job[r].v1_job = m
                /\ m.metadata.namespace = job[r].namespace
                /\ m.metadata.namespace = params[r].namespace

C10_Witness ==
    \E r \in Runs :
        /\ Len(submitted[r]) = 1
        /\ params[r].image_pull_secret = ""
        /\ params[r].namespace = "backups"
        /\ "imagePullSecrets" \notin DOMAIN submitted[r][1].spec.template.spec
        /\ submitted[r][1].metadata.namespace = "backups"

\* sub occurs in the string s.
Contains(s, sub) ==
    \E i \in 1..(Len(s) + 1) :
        i + Len(sub) - 1 <= Len(s) /\ SubSeq(s, i, i + Len(sub) - 1) = sub

\* Every value stored in a Secret of the model.
SecretValues == {d[k] : d \in SecretContents, k \in {"pg-password", "aws-access-key", "aws-secret-key"}}

ContainerOf(manifest) == manifest.spec.template.spec.containers[1]

\* C5: the container's env is exactly PGPASSWORD, AWS_ACCESS_KEY_ID and
\* AWS_SECRET_ACCESS_KEY, each a secretKeyRef naming k8s_secret_name (keys
\* pg-password, aws-access-key, aws-secret-key); the command string carries the
\* credentials only as $PGPASSWORD, $AWS_ACCESS_KEY_ID and
\* $AWS_SECRET_ACCESS_KEY, never as literal values; two runs that differ only
\* in the contents of the Secret submit identical manifests.
C5_SecretsOnlyByReference ==
    /\ \A r \in Runs :
          Len(submitted[r]) > 0 =>
              LET c == ContainerOf(submitted[r][1])
                  sn == params[r].k8s_secret_name
              IN  /\ Len(c.env) = 3
                  /\ \A i \in 1..3 :
                        /\ DOMAIN c.env[i] = {"name", "valueFrom"}
                        /\ DOMAIN c.env[i].valueFrom = {"secretKeyRef"}
                        /\ c.env[i].valueFrom.secretKeyRef.name = sn
                  /\ c.env[1].name = "PGPASSWORD"
                  /\ c.env[1].valueFrom.secretKeyRef.key = "pg-password"
                  /\ c.env[2].name = "AWS_ACCESS_KEY_ID"
                  /\ c.env[2].valueFrom.secretKeyRef.key = "aws-access-key"
                  /\ c.env[3].name = "AWS_SECRET_ACCESS_KEY"
                  /\ c.env[3].valueFrom.secretKeyRef.key = "aws-secret-key"
                  /\ Contains(c.args[1], "--password \"$PGPASSWORD\"")
                  /\ Contains(c.args[1], "--aws-access-key-id \"$AWS_ACCESS_KEY_ID\"")
                  /\ Contains(c.args[1], "--aws-secret-key \"$AWS_SECRET_ACCESS_KEY\"")
                  /\ \A v \in SecretValues : ~Contains(c.args[1], v)
    /\ \A r1, r2 \in Runs :
          (/\ Len(submitted[r1]) > 0
           /\ Len(submitted[r2]) > 0
           /\ params[r1] = params[r2]
           /\ flow_run_id[r1] = flow_run_id[r2])
          => submitted[r1] = submitted[r2]

C5_Witness ==
    \E r1, r2 \in Runs :
        /\ r1 # r2
        /\ Len(submitted[r1]) > 0
        /\ Len(submitted[r2]) > 0
        /\ params[r1] = params[r2]
        /\ flow_run_id[r1] = flow_run_id[r2]
        /\ secretAtBuild[r1] # secretAtBuild[r2]
        /\ submitted[r1] = submitted[r2]

\* Two runs whose arguments differ in aws_profile and in nothing else.
DifferOnlyInProfile(r1, r2) ==
    /\ params[r1].aws_profile # params[r2].aws_profile
    /\ [params[r1] EXCEPT !.aws_profile = params[r2].aws_profile] = params[r2]

\* C6: the aws_profile argument is carried into the backup container: two runs
\* differing only in aws_profile submit Jobs whose command string or
\* environment differ.
C6_ProfileReachesJob ==
    \A r1, r2 \in Runs :
        (/\ Len(submitted[r1]) > 0
         /\ Len(submitted[r2]) > 0
         /\ DifferOnlyInProfile(r1, r2))
        => ContainerOf(submitted[r1][1]) # ContainerOf(submitted[r2][1])

\* C7: any two distinct flow runs submit Jobs whose metadata.name differ, the
\* name being "pg-s3-backup-" plus the first 8 characters of the flow run id,
\* or plus "manual" when the id is empty or absent.
C7_JobNamesUnique ==
    /\ \A r \in Runs :
          Len(submitted[r]) > 0 =>
              submitted[r][1].metadata.name =
                  "pg-s3-backup-" \o (IF flow_run_id[r] \in {None, ""}
                                      THEN "manual"
                                      ELSE SubSeq(flow_run_id[r], 1, 8))
    /\ \A r1, r2 \in Runs :
          (r1 # r2 /\ Len(submitted[r1]) > 0 /\ Len(submitted[r2]) > 0)
          => submitted[r1][1].metadata.name # submitted[r2][1].metadata.name

====
